---- MODULE Spec2Model ----
(***************************************************************************)
(* Model of ase/calculators/kim/kim.py: the KIM() calculator dispatcher,   *)
(* get_model_supported_species(), and the helpers they call.               *)
(*                                                                         *)
(* Text that the code builds or parses character by character (species     *)
(* lists, LAMMPS command lines, model definition lines) is a sequence of   *)
(* one-character strings.  Opaque identifiers (model names, option keys,   *)
(* simulator names, unit tags) are TLA+ strings.                           *)
(***************************************************************************)
EXTENDS Integers, Sequences, FiniteSets, TLC

VARIABLES
    pc,         \* position of the running call in KIM / get_model_supported_species
    call,       \* the arguments of the running call
    handles,    \* knowledgebase handles currently open
    pending,    \* exception raised inside a `with` body, not yet propagated
    item_type,  \* result of col.get_item_type(model_name)
    sm_info,    \* tuple returned by _get_simulator_model_info
    pm_species, \* tuple returned by _get_kim_pm_supported_species
    ctor,       \* the backend constructor call the dispatcher made (or attempted)
    outcome,    \* how the call ended: a returned value or a raised exception
    fn_in,      \* arguments of a helper applied on its own
    fn_out      \* result of that helper

vars == <<pc, call, handles, pending, item_type, sm_info, pm_species, ctor,
          outcome, fn_in, fn_out>>

-----------------------------------------------------------------------------
(* Bounds of the model *)

\* largest number of keys in a caller-supplied options dict (dispatcher runs)
MaxOptions == 1
\* largest number of keys in an options dict handed to the validator alone
MaxValidatorKeys == 2
\* largest number of entries of supported_species
MaxSpecies == 2
\* largest number of entries of model_defn
MaxDefnLines == 2

-----------------------------------------------------------------------------
(* Python values *)

\* None where the other values are strings
None == "None"

\* None where the other values are dicts or objects
NoneObj == [cls |-> "NoneType"]

NoValue == [kind |-> "none"]

Returned(v) == [kind |-> "returned", value |-> v]

\* a raised exception: its class, which message it carries, the values
\* formatted into the message
Raised(exc, tag, args) == [kind |-> "raised", exc |-> exc, tag |-> tag, args |-> args]

IsRaised(r) == r.kind = "raised"

IsReturned(r) == r.kind = "returned"

\* os.linesep
linesep == <<"\n">>

Letters ==
    {"a","b","c","d","e","f","g","h","i","j","k","l","m",
     "n","o","p","q","r","s","t","u","v","w","x","y","z",
     "A","B","C","D","E","F","G","H","I","J","K","L","M",
     "N","O","P","Q","R","S","T","U","V","W","X","Y","Z"}

Digits == <<"0","1","2","3","4","5","6","7","8","9">>

DigitChars == {Digits[i] : i \in 1..10}

\* characters str.strip() removes
Whitespace == {" ", "\t", "\n", "\r"}

RECURSIVE Join(_, _)
\* sep.join(parts)
Join(sep, parts) ==
    IF parts = <<>> THEN <<>>
    ELSE IF Len(parts) = 1 THEN parts[1]
    ELSE parts[1] \o sep \o Join(sep, Tail(parts))

RECURSIVE IntToStr(_)
\* str(n) for an int n
IntToStr(n) ==
    IF n < 0 THEN <<"-">> \o IntToStr(0 - n)
    ELSE IF n < 10 THEN <<Digits[n + 1]>>
    ELSE IntToStr(n \div 10) \o <<Digits[(n % 10) + 1]>>

\* s.startswith(prefix)
StartsWith(s, prefix) ==
    /\ Len(s) >= Len(prefix)
    /\ SubSeq(s, 1, Len(prefix)) = prefix

\* s.strip()
Strip(s) ==
    LET keep == {i \in 1..Len(s) : s[i] \notin Whitespace}
    IN  IF keep = {} THEN <<>>
        ELSE LET lo == CHOOSE i \in keep : \A j \in keep : i <= j
                 hi == CHOOSE i \in keep : \A j \in keep : j <= i
             IN  SubSeq(s, lo, hi)

\* every ordering of a finite set: the orders in which Python may iterate it
Orderings(S) ==
    {q \in [1..Cardinality(S) -> S] : \A i, j \in 1..Cardinality(S) : q[i] = q[j] => i = j}

\* the sequences over S of length at most n
SeqUpTo(S, n) == UNION {[1..k -> S] : k \in 0..n}

-----------------------------------------------------------------------------
(* Text constants *)

\* text of the identifiers that the code formats into command lines
Chars(s) ==
    CASE s = "M" -> <<"M">>
      [] s = "metal" -> <<"m","e","t","a","l">>
      [] s = "si" -> <<"s","i">>
      [] s = "ase" -> <<"a","s","e">>

KimInitWord == <<"k","i","m","_","i","n","i","t">>

KimInteractionsWord == <<"k","i","m","_","i","n","t","e","r","a","c","t","i","o","n","s">>

UnitsWord == <<"u","n","i","t","s">>

AtomModifyLine == <<"a","t","o","m","_","m","o","d","i","f","y"," ","m","a","p"," ","a","r","r","a","y"," ","s","o","r","t"," ","0"," ","0">>

EMTWord == <<"E","M","T">>

EMTRasmussenParameters == <<"E","M","T","R","a","s","m","u","s","s","e","n","P","a","r","a","m","e","t","e","r","s">>

EMTMetalGlassParameters == <<"E","M","T","M","e","t","a","l","G","l","a","s","s","P","a","r","a","m","e","t","e","r","s">>

\* element symbols
Al == <<"A","l">>

Ni == <<"N","i">>

Cu == <<"C","u">>

\* a symbol that is no element
Xx == <<"X","x">>

-----------------------------------------------------------------------------
(* ase.data and ase.calculators.lammps.convert *)

\* a float, as a decimal mantissa and exponent
Float(m, e) == [m |-> m, e |-> e]

\* ase.data.atomic_numbers
atomic_numbers == (Al :> 13) @@ (Ni :> 28) @@ (Cu :> 29)

\* ase.data.atomic_masses, indexed by atomic number
atomic_masses ==
    (13 :> Float(26982, -3)) @@ (28 :> Float(58693, -3)) @@ (29 :> Float(63546, -3))

\* the mass unit of a LAMMPS unit system, in atomic mass units
MassUnit(units) ==
    CASE units = "metal" -> Float(1, 0)
      [] units = "si" -> Float(16605, -31)

\* convert(value, "mass", "ASE", units)
convert(value, units) ==
    Float(value.m * MassUnit(units).m, value.e + MassUnit(units).e)

\* str(x) for a float x
StrFloat(x) == IntToStr(x.m) \o <<"e">> \o IntToStr(x.e)

-----------------------------------------------------------------------------
(* _check_conflict_options *)

\* Python's call f(**internal, **options): a keyword given twice is a TypeError
\* raised before the callee runs
CallWithKwargs(cls, args, internal, options) ==
    IF (DOMAIN internal) \cap (DOMAIN options) # {}
    THEN Raised("TypeError", "multiple values for keyword argument",
                (DOMAIN internal) \cap (DOMAIN options))
    ELSE Returned([cls |-> cls, args |-> args, kwargs |-> internal @@ options,
                   post |-> <<>>])

\* variant: the message names only the first conflicting key
CheckConflictOptionsFirstOnly(options, not_allowed_options, simulator, order) ==
    LET s1 == DOMAIN options
        s2 == {not_allowed_options[i] : i \in 1..Len(not_allowed_options)}
        common == s1 \cap s2
    IN  IF common # {}
        THEN [res |-> Raised("KIMCalculatorError", "does not support argument(s)",
                             [simulator |-> simulator, keys |-> <<order[1]>>]),
              options |-> options]
        ELSE [res |-> Returned(NoneObj), options |-> options]

\* _check_conflict_options(options, not_allowed_options, simulator); `order` is
\* the order in which Python iterates the set `common`.  The result carries
\* the options dict as the call leaves it.
CheckConflictOptions(options, not_allowed_options, simulator, order) ==
    LET s1 == DOMAIN options
        s2 == {not_allowed_options[i] : i \in 1..Len(not_allowed_options)}
        common == s1 \cap s2
    IN  IF common # {}
        THEN [res |-> Raised("KIMCalculatorError", "does not support argument(s)",
                             [simulator |-> simulator, keys |-> order]),
              options |-> options]
        ELSE [res |-> Returned(NoneObj), options |-> options]

\* the set `common` of a call, whose iteration order the call depends on
CommonKeys(options, not_allowed_options) ==
    (DOMAIN options) \cap {not_allowed_options[i] : i \in 1..Len(not_allowed_options)}

-----------------------------------------------------------------------------
(* _get_params_for_LAMMPS_calculator *)

\* variant: the line carries the 0-based loop index
MassLineZeroBased(i, species, supported_units) ==
    IntToStr(i - 1) \o <<" ">>
        \o StrFloat(convert(atomic_masses[atomic_numbers[species]], supported_units))

\* one entry of parameters["masses"]: str(i + 1) + " " + massstr, for the 0-based
\* loop index i of the code; here i counts from 1
MassLine(i, species, supported_units) ==
    IntToStr(i) \o <<" ">>
        \o StrFloat(convert(atomic_masses[atomic_numbers[species]], supported_units))

\* "kim_interactions {}{}".format((" ").join(supported_species), os.linesep)
KimInteractionsLine(supported_species) ==
    KimInteractionsWord \o <<" ">> \o Join(<<" ">>, supported_species) \o linesep

\* "kim_init {} {}{}".format(model_name, supported_units, os.linesep)
KimInitLine(model_name, supported_units) ==
    KimInitWord \o <<" ">> \o Chars(model_name) \o <<" ">> \o Chars(supported_units)
        \o linesep

GetParamsForLAMMPSCalculator(model_name, supported_units, supported_species, atom_style) ==
    LET unknown == {i \in 1..Len(supported_species) :
                        supported_species[i] \notin DOMAIN atomic_numbers}
        first == CHOOSE i \in unknown : \A j \in unknown : i <= j
        base == ("units" :> supported_units)
                @@ ("model_init" :> <<KimInitLine(model_name, supported_units)>>)
                @@ ("kim_interactions" :> KimInteractionsLine(supported_species))
                @@ ("masses" :> [i \in 1..Len(supported_species) |->
                                    MassLine(i, supported_species[i], supported_units)])
    IN  IF unknown # {}
        THEN Raised("KIMCalculatorError", "Unknown element species",
                    supported_species[first])
        ELSE IF atom_style # None /\ atom_style # ""
        THEN Returned(("atom_style" :> atom_style) @@ base)
        ELSE Returned(base)

\* the loop `for i_s, s in enumerate(supported_species): atom_types[s] = i_s + 1`:
\* a later entry for the same species overwrites an earlier one
AtomTypes(supported_species) ==
    [s \in {supported_species[i] : i \in 1..Len(supported_species)} |->
        CHOOSE i \in 1..Len(supported_species) :
            /\ supported_species[i] = s
            /\ \A j \in 1..Len(supported_species) : supported_species[j] = s => j <= i]

-----------------------------------------------------------------------------
(* _asap_calculator *)

\* the character class [A-Za-z0-9_\(\)] of the pattern
ParamChars == Letters \cup DigitChars \cup {"_", "(", ")"}

NoMatch == [matched |-> FALSE, group |-> <<>>]

\* re.search(r"\(([A-Za-z0-9_\(\)]+)\)", s): the leftmost "(" from which the
\* pattern matches, the group taken greedily up to the last ")" it can reach
ReSearchParams(s) ==
    LET ends(i) == {j \in (i + 2)..Len(s) :
                        /\ s[j] = ")"
                        /\ \A k \in (i + 1)..(j - 1) : s[k] \in ParamChars}
        starts == {i \in 1..Len(s) : s[i] = "(" /\ ends(i) # {}}
        i0 == CHOOSE i \in starts : \A k \in starts : i <= k
        j0 == CHOOSE j \in ends(i0) : \A k \in ends(i0) : k <= j
    IN  IF starts = {} THEN NoMatch
        ELSE [matched |-> TRUE, group |-> SubSeq(s, i0 + 1, j0 - 1)]

\* an asap3.EMT instance after asap_calc.set_subtractE0(False)
EMTCalc(kwargs) ==
    [cls |-> "asap3.EMT", args |-> <<>>, kwargs |-> kwargs,
     post |-> <<"set_subtractE0(False)">>]

\* variant: "metal" units are let through as well
UnitsAreAseOrMetal(supported_units) == supported_units \in {"ase", "metal"}

\* the test of `if supported_units != "ase"`, negated
UnitsAreAse(supported_units) == supported_units = "ase"

\* variant: the check for an empty string is left out
CheckModelDefnLengthOnly(model_defn, model_name) ==
    IF Len(model_defn) = 0
    THEN Raised("KIMCalculatorError", "model-defn is an empty list", model_name)
    ELSE IF Len(model_defn) > 1
    THEN Raised("KIMCalculatorError", "model-defn should contain only one entry",
                Len(model_defn))
    ELSE NoValue

\* the checks of model_defn: an exception to raise, or NoValue
CheckModelDefn(model_defn, model_name) ==
    IF Len(model_defn) = 0
    THEN Raised("KIMCalculatorError", "model-defn is an empty list", model_name)
    ELSE IF Len(model_defn) > 1
    THEN Raised("KIMCalculatorError", "model-defn should contain only one entry",
                Len(model_defn))
    ELSE IF \E i \in 1..Len(model_defn) : model_defn[i] = <<>>
    THEN Raised("KIMCalculatorError", "model-defn contains an empty string", model_name)
    ELSE NoValue

\* the calculator chosen for the stripped definition line, with
\* asap_calc.set_subtractE0(False) applied to it
SelectAsapCalc(line) ==
    LET mobj == ReSearchParams(line)
        pp == mobj.group
    IN  IF StartsWith(line, EMTWord)
        THEN IF ~mobj.matched
             THEN Returned(EMTCalc(<<>>))
             ELSE IF StartsWith(pp, EMTRasmussenParameters)
             THEN Returned(EMTCalc("parameters" :> "asap3.EMTRasmussenParameters()"))
             ELSE IF StartsWith(pp, EMTMetalGlassParameters)
             THEN Returned(EMTCalc("parameters" :> "asap3.EMTMetalGlassParameters()"))
             ELSE Raised("KIMCalculatorError", "Unknown model for simulator ASAP", line)
        \* asap_calc was never assigned: asap_calc.set_subtractE0 fails
        ELSE Raised("UnboundLocalError", "asap_calc referenced before assignment", <<>>)

\* _asap_calculator(model_name, model_type, **kwargs); asap3_installed says
\* whether `import asap3` succeeds
AsapCalculator(model_name, model_type, kwargs, asap3_installed) ==
    IF ~asap3_installed
    THEN Raised("ImportError", "You need to install asap3 first.", <<>>)
    ELSE IF model_type = "pm"
    THEN CallWithKwargs("asap3.OpenKIMcalculator", <<>>,
                        ("name" :> model_name) @@ ("verbose" :> kwargs.verbose),
                        kwargs.options)
    ELSE IF model_type = "sm"
    THEN IF ~UnitsAreAse(kwargs.supported_units)
         THEN Raised("KIMCalculatorError", "units expected to be ase",
                     kwargs.supported_units)
         ELSE IF CheckModelDefn(kwargs.model_defn, model_name) # NoValue
         THEN CheckModelDefn(kwargs.model_defn, model_name)
         ELSE SelectAsapCalc(Strip(kwargs.model_defn[1]))
    \* neither branch of the if: the function falls off its end
    ELSE Returned(NoneObj)

-----------------------------------------------------------------------------
(* The dispatcher's tables (KIM, lines 113-129) *)

kimmodel_not_allowed_options == <<"modelname", "debug">>

lammpsrun_not_allowed_options == <<"parameters", "files", "specorder", "keep_tmp_files">>

lammpslib_not_allowed_options ==
    <<"lammps_header", "lmpcmds", "atom_types", "log_file", "keep_alive">>

asap_kimpm_not_allowed_options == <<"name", "verbose">>

asap_kimsm_not_allowed_options == <<"Params">>

-----------------------------------------------------------------------------
(* Inputs *)

\* option keys a caller may pass: the keys of the not-allowed lists, the other
\* keywords the dispatcher passes to a backend, and two the backends accept
OptionKeys ==
    {"modelname", "debug", "parameters", "files", "specorder", "keep_tmp_files",
     "lammps_header", "lmpcmds", "atom_types", "log_file", "keep_alive",
     "name", "verbose", "Params",
     "units", "model_init", "kim_interactions", "masses", "atom_style", "lammps_name",
     "ase_neigh", "tmp_dir"}

OptionValues == {"v1", "v2"}

\* the dicts with at most n keys
OptionDicts(n) ==
    UNION {[K -> OptionValues] : K \in {S \in SUBSET OptionKeys : Cardinality(S) <= n}}

ModelNames == {"M"}

\* values of the `simulator` argument: omitted, the four supported, one unsupported
SimulatorArgs == {None, "kimmodel", "asap", "lammpsrun", "lammpslib", "gromacs"}

SpeciesSymbols == {Al, Ni, Cu, Xx}

\* supported_species lists: each symbol at most once
SpeciesLists(n) ==
    {q \in SeqUpTo(SpeciesSymbols, n) : \A i, j \in 1..Len(q) : q[i] = q[j] => i = j}

\* lines a Simulator Model's model-defn may hold
DefnLines ==
    { <<>>,
      <<" ">>,
      <<"E","M","T">>,
      <<" ","E","M","T"," ">>,
      <<"E","M","T","(",")">>,
      <<"E","M","T","(","E","M","T","R","a","s","m","u","s","s","e","n","P","a","r","a","m","e","t","e","r","s","(",")",")">>,
      <<"E","M","T","(","E","M","T","M","e","t","a","l","G","l","a","s","s","P","a","r","a","m","e","t","e","r","s","(",")",")">>,
      <<"E","M","T","(","E","M","T","R","a","s","m","u","s","s","e","n","P","a","r","a","m","e","t","e","r","s",")">>,
      <<"E","M","T","(","E","M","T","R","a","s","m","u","s","s","e","n","P","a","r","a","m","e","t","e","r","s","X",")">>,
      <<"E","M","T","(","F","o","o",")">>,
      <<"E","M","T","(","F","o","o","-","B","a","r",")">>,
      <<"L","J">> }

-----------------------------------------------------------------------------
(* The knowledgebase, as the calls see it *)

\* col.get_item_type(model_name)
ItemTypes == {"portableModel", "simulatorModel"}

collection_item_type_portableModel == "portableModel"

SMInfo(simulator_name, supported_species, supported_units, model_defn, atom_style) ==
    [simulator_name |-> simulator_name, supported_species |-> supported_species,
     supported_units |-> supported_units, model_defn |-> model_defn,
     atom_style |-> atom_style]

\* metadata of the Simulator Models installed
SimulatorModels ==
    { SMInfo("ASAP", <<Cu>>, "ase", << <<"E","M","T">> >>, None),
      SMInfo("ASAP", <<Al, Ni>>, "ase",
             << <<"E","M","T","(","E","M","T","R","a","s","m","u","s","s","e","n","P","a","r","a","m","e","t","e","r","s","(",")",")">> >>, None),
      SMInfo("ASAP", <<Cu>>, "ase", << <<"E","M","T","(","F","o","o",")">> >>, None),
      SMInfo("ASAP", <<Cu>>, "ase", << <<"L","J">> >>, None),
      SMInfo("ASAP", <<Cu>>, "ase", <<>>, None),
      SMInfo("ASAP", <<Cu>>, "metal", << <<"E","M","T">> >>, None),
      SMInfo("LAMMPS", <<Al, Ni>>, "metal", <<>>, None),
      SMInfo("LAMMPS", <<Ni>>, "si", <<>>, "charge"),
      SMInfo("LAMMPS", <<Xx>>, "metal", <<>>, None),
      SMInfo("GROMACS", <<Al>>, "metal", <<>>, None) }

\* species lists of the Portable Models installed
PortableModelSpecies == {<<Al>>, <<Ni, Al>>, <<Xx>>}

\* what a failing knowledgebase query raises
LookupError == Raised("KimpyError", "knowledgebase lookup failed", <<>>)

\* __enter__ of a knowledgebase wrapper: the handle is open
Acquire(h) == handles' = handles \cup {h}

\* __exit__ of a knowledgebase wrapper: the handle is destroyed
Release(h) == handles' = handles \ {h}

-----------------------------------------------------------------------------
(* KIM and get_model_supported_species, step by step *)

NoCall == [entry |-> None]

\* no call of KIM or get_model_supported_species is running
DispatcherIdle ==
    /\ pc = "idle"
    /\ call = NoCall
    /\ handles = {}
    /\ pending = NoValue
    /\ item_type = None
    /\ sm_info = NoValue
    /\ pm_species = NoValue
    /\ ctor = NoValue
    /\ outcome = NoValue

dispatcherVars == <<pc, call, handles, pending, item_type, sm_info, pm_species,
                    ctor, outcome>>

Init ==
    /\ DispatcherIdle
    /\ fn_in = NoValue
    /\ fn_out = NoValue

\* KIM(model_name, simulator, options, debug) is called; `if options is None:
\* options = dict()`
CallKIM ==
    /\ pc = "idle"
    /\ \E model_name \in ModelNames, simulator \in SimulatorArgs,
          options \in OptionDicts(MaxOptions) \cup {NoneObj}, debug \in BOOLEAN :
          call' = [entry |-> "KIM", model_name |-> model_name, simulator |-> simulator,
                   options_arg |-> options,
                   options |-> IF options = NoneObj THEN <<>> ELSE options,
                   debug |-> debug]
    /\ pc' = "classify"
    /\ UNCHANGED <<handles, pending, item_type, sm_info, pm_species, ctor, outcome,
                   fn_in, fn_out>>

\* get_model_supported_species(model_name) is called
CallGetModelSupportedSpecies ==
    /\ pc = "idle"
    /\ \E model_name \in ModelNames :
          call' = [entry |-> "get_model_supported_species", model_name |-> model_name,
                   simulator |-> None, options_arg |-> NoneObj, options |-> <<>>,
                   debug |-> FALSE]
    /\ pc' = "classify"
    /\ UNCHANGED <<handles, pending, item_type, sm_info, pm_species, ctor, outcome,
                   fn_in, fn_out>>

\* _is_portable_model: `with kimpy_wrappers.ModelCollections() as col:`
ClassifyEnter ==
    /\ pc = "classify"
    /\ Acquire("ModelCollections")
    /\ pc' = "classify_body"
    /\ UNCHANGED <<call, pending, item_type, sm_info, pm_species, ctor, outcome,
                   fn_in, fn_out>>

\* `model_type = col.get_item_type(model_name)`: a type, or the query fails
ClassifyBody ==
    /\ pc = "classify_body"
    /\ \/ \E t \in ItemTypes : item_type' = t /\ pending' = NoValue
       \/ item_type' = item_type /\ pending' = LookupError
    /\ pc' = "classify_exit"
    /\ UNCHANGED <<call, handles, sm_info, pm_species, ctor, outcome, fn_in, fn_out>>

\* variant: no `with`; the handle is released only on the normal path
ClassifyExitLeak ==
    /\ pc = "classify_exit"
    /\ IF IsRaised(pending)
       THEN /\ outcome' = pending
            /\ pc' = "done"
            /\ handles' = handles
       ELSE /\ outcome' = outcome
            /\ pc' = IF item_type = collection_item_type_portableModel
                     THEN "pm_dispatch" ELSE "sm_info"
            /\ Release("ModelCollections")
    /\ pending' = NoValue
    /\ UNCHANGED <<call, item_type, sm_info, pm_species, ctor, fn_in, fn_out>>

\* the `with` block is left, by its end or by the exception: the handle is
\* released, then the exception propagates out of the call or
\* `return model_type == ...portableModel` picks the branch of the caller
ClassifyExit ==
    /\ pc = "classify_exit"
    /\ Release("ModelCollections")
    /\ IF IsRaised(pending)
       THEN /\ outcome' = pending
            /\ pc' = "done"
       ELSE /\ outcome' = outcome
            /\ pc' = IF item_type = collection_item_type_portableModel
                     THEN "pm_dispatch" ELSE "sm_info"
    /\ pending' = NoValue
    /\ UNCHANGED <<call, item_type, sm_info, pm_species, ctor, fn_in, fn_out>>

\* the call ends with result r
Finish(r) ==
    /\ outcome' = r
    /\ pc' = "done"

\* a constructor call the dispatcher or a builder reached, with the keywords it
\* computed itself and the caller's options it forwarded
CtorCall(by, cls, internal, forwarded) ==
    [kind |-> "call", by |-> by, cls |-> cls, internal |-> internal,
     forwarded |-> forwarded]

\* `if simulator is None: simulator = "kimmodel"`
PortableSimulator(simulator) == IF simulator = None THEN "kimmodel" ELSE simulator

\* Portable Model, simulator "kimmodel" (lines 139-141)
PortableKimmodel ==
    /\ pc = "pm_dispatch"
    /\ call.entry = "KIM"
    /\ PortableSimulator(call.simulator) = "kimmodel"
    /\ \E order \in Orderings(CommonKeys(call.options, kimmodel_not_allowed_options)) :
          LET chk == CheckConflictOptions(call.options, kimmodel_not_allowed_options,
                                          "kimmodel", order)
          IN  IF IsRaised(chk.res)
              THEN Finish(chk.res) /\ ctor' = ctor
              ELSE /\ ctor' = CtorCall("KIM", "KIMModelCalculator",
                                       "debug" :> call.debug, chk.options)
                   /\ Finish(CallWithKwargs("KIMModelCalculator", <<call.model_name>>,
                                            "debug" :> call.debug, chk.options))
    /\ UNCHANGED <<call, handles, pending, item_type, sm_info, pm_species, fn_in, fn_out>>

\* Portable Model, simulator "asap" (lines 143-147)
PortableAsap ==
    /\ pc = "pm_dispatch"
    /\ call.entry = "KIM"
    /\ PortableSimulator(call.simulator) = "asap"
    /\ \E order \in Orderings(CommonKeys(call.options, asap_kimpm_not_allowed_options)),
          asap3_installed \in BOOLEAN :
          LET chk == CheckConflictOptions(call.options, asap_kimpm_not_allowed_options,
                                          "asap", order)
          IN  IF IsRaised(chk.res)
              THEN Finish(chk.res) /\ ctor' = ctor
              ELSE /\ ctor' = IF asap3_installed
                              THEN CtorCall("_asap_calculator", "asap3.OpenKIMcalculator",
                                            ("name" :> call.model_name)
                                                @@ ("verbose" :> call.debug),
                                            chk.options)
                              ELSE ctor
                   /\ Finish(AsapCalculator(call.model_name, "pm",
                                            [verbose |-> call.debug, options |-> chk.options],
                                            asap3_installed))
    /\ UNCHANGED <<call, handles, pending, item_type, sm_info, pm_species, fn_in, fn_out>>

\* Portable Model, simulator "lammpsrun": the options check (line 151), then on
\* to _get_kim_pm_supported_species
PortableLammpsrunCheck ==
    /\ pc = "pm_dispatch"
    /\ call.entry = "KIM"
    /\ PortableSimulator(call.simulator) = "lammpsrun"
    /\ \E order \in Orderings(CommonKeys(call.options, lammpsrun_not_allowed_options)) :
          LET chk == CheckConflictOptions(call.options, lammpsrun_not_allowed_options,
                                          "lammpsrun", order)
          IN  IF IsRaised(chk.res)
              THEN Finish(chk.res) /\ call' = call
              ELSE /\ pc' = "pm_species"
                   /\ outcome' = outcome
                   /\ call' = [call EXCEPT !.options = chk.options]
    /\ UNCHANGED <<handles, pending, item_type, sm_info, pm_species, ctor, fn_in, fn_out>>

\* Portable Model, simulator "lammpslib" or anything else (lines 171-181)
PortableUnsupported ==
    /\ pc = "pm_dispatch"
    /\ call.entry = "KIM"
    /\ PortableSimulator(call.simulator) \notin {"kimmodel", "asap", "lammpsrun"}
    /\ IF PortableSimulator(call.simulator) = "lammpslib"
       THEN Finish(Raised("KIMCalculatorError",
                          "lammpslib does not support KIM Portable Models", <<>>))
       ELSE Finish(Raised("KIMCalculatorError",
                          "Unsupported simulator requested to run KIM Portable Model",
                          PortableSimulator(call.simulator)))
    /\ UNCHANGED <<call, handles, pending, item_type, sm_info, pm_species, ctor,
                   fn_in, fn_out>>

\* get_model_supported_species, Portable Model: on to the species query
SpeciesOfPortable ==
    /\ pc = "pm_dispatch"
    /\ call.entry = "get_model_supported_species"
    /\ pc' = "pm_species"
    /\ UNCHANGED <<call, handles, pending, item_type, sm_info, pm_species, ctor, outcome,
                   fn_in, fn_out>>

\* _get_kim_pm_supported_species: `with KIMModelCalculator(model_name) as kim_calc:`
PMSpeciesEnter ==
    /\ pc = "pm_species"
    /\ Acquire("KIMModelCalculator")
    /\ pc' = "pm_species_body"
    /\ UNCHANGED <<call, pending, item_type, sm_info, pm_species, ctor, outcome,
                   fn_in, fn_out>>

\* `kim_calc.get_model_supported_species_and_codes()`: the list, or the query fails
PMSpeciesBody ==
    /\ pc = "pm_species_body"
    /\ \/ \E sp \in PortableModelSpecies : pm_species' = sp /\ pending' = NoValue
       \/ pm_species' = pm_species /\ pending' = LookupError
    /\ pc' = "pm_species_exit"
    /\ UNCHANGED <<call, handles, item_type, sm_info, ctor, outcome, fn_in, fn_out>>

\* the `with` block is left: the handle is released; then the exception
\* propagates, or `return tuple(supported_species)` goes back to the caller
PMSpeciesExit ==
    /\ pc = "pm_species_exit"
    /\ Release("KIMModelCalculator")
    /\ IF IsRaised(pending)
       THEN Finish(pending)
       ELSE IF call.entry = "get_model_supported_species"
       THEN Finish(Returned(pm_species))
       ELSE /\ pc' = "pm_build"
            /\ outcome' = outcome
    /\ pending' = NoValue
    /\ UNCHANGED <<call, item_type, sm_info, pm_species, ctor, fn_in, fn_out>>

\* Portable Model, simulator "lammpsrun": the parameters and the LAMMPS
\* calculator (lines 155-169)
PortableLammpsrunBuild ==
    /\ pc = "pm_build"
    /\ LET parameters == GetParamsForLAMMPSCalculator(call.model_name, "metal",
                                                      pm_species, None)
           internal == parameters.value @@ ("specorder" :> pm_species)
                           @@ ("keep_tmp_files" :> call.debug)
       IN  IF IsRaised(parameters)
           THEN Finish(parameters) /\ ctor' = ctor
           ELSE /\ ctor' = CtorCall("KIM", "LAMMPS", internal, call.options)
                /\ Finish(CallWithKwargs("LAMMPS", <<>>, internal, call.options))
    /\ UNCHANGED <<call, handles, pending, item_type, sm_info, pm_species, fn_in, fn_out>>

\* _get_simulator_model_info: `with kimpy_wrappers.SimulatorModel(model_name) as sm:`
SMInfoEnter ==
    /\ pc = "sm_info"
    /\ Acquire("SimulatorModel")
    /\ pc' = "sm_info_body"
    /\ UNCHANGED <<call, pending, item_type, sm_info, pm_species, ctor, outcome,
                   fn_in, fn_out>>

\* the five fields are read, or the metadata cannot be read
SMInfoBody ==
    /\ pc = "sm_info_body"
    /\ \/ \E m \in SimulatorModels : sm_info' = m /\ pending' = NoValue
       \/ sm_info' = sm_info /\ pending' = LookupError
    /\ pc' = "sm_info_exit"
    /\ UNCHANGED <<call, handles, item_type, pm_species, ctor, outcome, fn_in, fn_out>>

\* the `with` block is left: the handle is released; then the exception
\* propagates, or the tuple goes back to the caller
SMInfoExit ==
    /\ pc = "sm_info_exit"
    /\ Release("SimulatorModel")
    /\ IF IsRaised(pending)
       THEN Finish(pending)
       ELSE IF call.entry = "get_model_supported_species"
       THEN Finish(Returned(sm_info.supported_species))
       ELSE /\ pc' = "sm_dispatch"
            /\ outcome' = outcome
    /\ pending' = NoValue
    /\ UNCHANGED <<call, item_type, sm_info, pm_species, ctor, fn_in, fn_out>>

\* the default for `simulator` of a Simulator Model (lines 195-199)
SimulatorModelSimulator(simulator, simulator_name) ==
    IF simulator = None
    THEN IF simulator_name = "ASAP" THEN "asap"
         ELSE IF simulator_name = "LAMMPS" THEN "lammpslib"
         ELSE simulator
    ELSE simulator

\* Simulator Model of ASAP (lines 201-210): the options are checked and not
\* passed on
SimulatorAsap ==
    /\ pc = "sm_dispatch"
    /\ sm_info.simulator_name = "ASAP"
    /\ \E order \in Orderings(CommonKeys(call.options, asap_kimsm_not_allowed_options)),
          asap3_installed \in BOOLEAN :
          LET simulator == SimulatorModelSimulator(call.simulator, sm_info.simulator_name)
              chk == CheckConflictOptions(call.options, asap_kimsm_not_allowed_options,
                                          simulator, order)
              calc == AsapCalculator(call.model_name, "sm",
                                     [model_defn |-> sm_info.model_defn,
                                      supported_units |-> sm_info.supported_units],
                                     asap3_installed)
          IN  IF IsRaised(chk.res)
              THEN Finish(chk.res) /\ ctor' = ctor
              ELSE /\ ctor' = IF IsReturned(calc)
                              THEN CtorCall("_asap_calculator", calc.value.cls,
                                            calc.value.kwargs, <<>>)
                              ELSE ctor
                   /\ Finish(calc)
    /\ UNCHANGED <<call, handles, pending, item_type, sm_info, pm_species, fn_in, fn_out>>

\* Simulator Model of LAMMPS, simulator "lammpsrun" (lines 214-226): the
\* options are checked and not passed on
SimulatorLammpsrun ==
    /\ pc = "sm_dispatch"
    /\ sm_info.simulator_name = "LAMMPS"
    /\ SimulatorModelSimulator(call.simulator, sm_info.simulator_name) = "lammpsrun"
    /\ \E order \in Orderings(CommonKeys(call.options, lammpsrun_not_allowed_options)) :
          LET chk == CheckConflictOptions(call.options, lammpsrun_not_allowed_options,
                                          "lammpsrun", order)
              parameters == GetParamsForLAMMPSCalculator(
                                call.model_name, sm_info.supported_units,
                                sm_info.supported_species, sm_info.atom_style)
              internal == parameters.value @@ ("specorder" :> sm_info.supported_species)
                              @@ ("keep_tmp_files" :> call.debug)
          IN  IF IsRaised(chk.res)
              THEN Finish(chk.res) /\ ctor' = ctor
              ELSE IF IsRaised(parameters)
              THEN Finish(parameters) /\ ctor' = ctor
              ELSE /\ ctor' = CtorCall("KIM", "LAMMPS", internal, <<>>)
                   /\ Finish(CallWithKwargs("LAMMPS", <<>>, internal, <<>>))
    /\ UNCHANGED <<call, handles, pending, item_type, sm_info, pm_species, fn_in, fn_out>>

\* the header commands of the LAMMPSlib calculator (lines 237-242)
ModelInit(model_name, supported_units) ==
    << UnitsWord \o <<" ">> \o Chars(supported_units) \o linesep,
       KimInitLine(model_name, supported_units),
       AtomModifyLine \o linesep >>

\* Simulator Model of LAMMPS, simulator "lammpslib" (lines 228-262)
SimulatorLammpslib ==
    /\ pc = "sm_dispatch"
    /\ sm_info.simulator_name = "LAMMPS"
    /\ SimulatorModelSimulator(call.simulator, sm_info.simulator_name) = "lammpslib"
    /\ \E order \in Orderings(CommonKeys(call.options, lammpslib_not_allowed_options)) :
          LET chk == CheckConflictOptions(call.options, lammpslib_not_allowed_options,
                                          "lammpslib", order)
              internal ==
                  ("lammps_header" :> ModelInit(call.model_name, sm_info.supported_units))
                  @@ ("lammps_name" :> None)
                  @@ ("lmpcmds" :> << KimInteractionsWord \o <<" ">>
                                        \o Join(<<" ">>, sm_info.supported_species) >>)
                  @@ ("atom_types" :> AtomTypes(sm_info.supported_species))
                  @@ ("log_file" :> "lammps.log")
                  @@ ("keep_alive" :> TRUE)
          IN  IF IsRaised(chk.res)
              THEN Finish(chk.res) /\ ctor' = ctor
              ELSE /\ ctor' = CtorCall("KIM", "LAMMPSlib", internal, chk.options)
                   /\ Finish(CallWithKwargs("LAMMPSlib", <<>>, internal, chk.options))
    /\ UNCHANGED <<call, handles, pending, item_type, sm_info, pm_species, fn_in, fn_out>>

\* Simulator Model of LAMMPS, any other simulator (lines 264-267)
SimulatorUnknownLammps ==
    /\ pc = "sm_dispatch"
    /\ sm_info.simulator_name = "LAMMPS"
    /\ SimulatorModelSimulator(call.simulator, sm_info.simulator_name)
          \notin {"lammpsrun", "lammpslib"}
    /\ Finish(Raised("KIMCalculatorError", "Unknown LAMMPS calculator",
                     SimulatorModelSimulator(call.simulator, sm_info.simulator_name)))
    /\ UNCHANGED <<call, handles, pending, item_type, sm_info, pm_species, ctor,
                   fn_in, fn_out>>

\* variant: the options are checked before the simulator name is looked at
SimulatorUnsupportedAfterCheck ==
    /\ pc = "sm_dispatch"
    /\ sm_info.simulator_name \notin {"ASAP", "LAMMPS"}
    /\ \E order \in Orderings(CommonKeys(call.options, lammpslib_not_allowed_options)) :
          LET chk == CheckConflictOptions(call.options, lammpslib_not_allowed_options,
                                          call.simulator, order)
          IN  IF IsRaised(chk.res)
              THEN Finish(chk.res)
              ELSE Finish(Raised("KIMCalculatorError", "Unsupported simulator",
                                 sm_info.simulator_name))
    /\ UNCHANGED <<call, handles, pending, item_type, sm_info, pm_species, ctor,
                   fn_in, fn_out>>

\* Simulator Model of any other simulator (lines 269-270)
SimulatorUnsupported ==
    /\ pc = "sm_dispatch"
    /\ sm_info.simulator_name \notin {"ASAP", "LAMMPS"}
    /\ Finish(Raised("KIMCalculatorError", "Unsupported simulator",
                     sm_info.simulator_name))
    /\ UNCHANGED <<call, handles, pending, item_type, sm_info, pm_species, ctor,
                   fn_in, fn_out>>

Next ==
    \/ CallKIM
    \/ CallGetModelSupportedSpecies
    \/ ClassifyEnter
    \/ ClassifyBody
    \/ ClassifyExit
    \/ PortableKimmodel
    \/ PortableAsap
    \/ PortableLammpsrunCheck
    \/ PortableUnsupported
    \/ SpeciesOfPortable
    \/ PMSpeciesEnter
    \/ PMSpeciesBody
    \/ PMSpeciesExit
    \/ PortableLammpsrunBuild
    \/ SMInfoEnter
    \/ SMInfoBody
    \/ SMInfoExit
    \/ SimulatorAsap
    \/ SimulatorLammpsrun
    \/ SimulatorLammpslib
    \/ SimulatorUnknownLammps
    \/ SimulatorUnsupported

Spec == Init /\ [][Next]_vars

-----------------------------------------------------------------------------
(* The helpers applied on their own, to every input within the bounds *)

InitValidator ==
    /\ DispatcherIdle
    /\ fn_in \in [fn : {"_check_conflict_options"},
                  options : OptionDicts(MaxValidatorKeys),
                  not_allowed_options : {kimmodel_not_allowed_options,
                                         lammpsrun_not_allowed_options,
                                         lammpslib_not_allowed_options,
                                         asap_kimpm_not_allowed_options,
                                         asap_kimsm_not_allowed_options,
                                         <<>>},
                  simulator : {"lammpsrun"}]
    /\ fn_out = NoValue

ApplyCheckConflictOptions ==
    /\ fn_in.fn = "_check_conflict_options"
    /\ fn_out = NoValue
    /\ \E order \in Orderings(CommonKeys(fn_in.options, fn_in.not_allowed_options)) :
          fn_out' = CheckConflictOptions(fn_in.options, fn_in.not_allowed_options,
                                         fn_in.simulator, order)
    /\ UNCHANGED <<fn_in, dispatcherVars>>

NextValidator == ApplyCheckConflictOptions

SpecValidator == InitValidator /\ [][NextValidator]_vars

InitAsap ==
    /\ DispatcherIdle
    /\ fn_in \in [fn : {"_asap_calculator"},
                  model_name : ModelNames,
                  model_type : {"sm"},
                  kwargs : [model_defn : SeqUpTo(DefnLines, MaxDefnLines),
                            supported_units : {"ase", "metal", "si"}],
                  asap3_installed : BOOLEAN]
    /\ fn_out = NoValue

ApplyAsapCalculator ==
    /\ fn_in.fn = "_asap_calculator"
    /\ fn_out = NoValue
    /\ fn_out' = AsapCalculator(fn_in.model_name, fn_in.model_type, fn_in.kwargs,
                                fn_in.asap3_installed)
    /\ UNCHANGED <<fn_in, dispatcherVars>>

NextAsap == ApplyAsapCalculator

SpecAsap == InitAsap /\ [][NextAsap]_vars

InitLammps ==
    /\ DispatcherIdle
    /\ fn_in \in [fn : {"_get_params_for_LAMMPS_calculator"},
                  model_name : ModelNames,
                  supported_units : {"metal", "si"},
                  supported_species : SpeciesLists(MaxSpecies),
                  atom_style : {None, "charge"}]
    /\ fn_out = [parameters |-> NoValue, atom_types |-> NoValue]

ApplyGetParams ==
    /\ fn_in.fn = "_get_params_for_LAMMPS_calculator"
    /\ fn_out.parameters = NoValue
    /\ fn_out' = [fn_out EXCEPT !.parameters =
                    GetParamsForLAMMPSCalculator(fn_in.model_name, fn_in.supported_units,
                                                 fn_in.supported_species, fn_in.atom_style)]
    /\ UNCHANGED <<fn_in, dispatcherVars>>

\* the dispatcher's species-to-type loop, on the same species list
ApplyAtomTypes ==
    /\ fn_in.fn = "_get_params_for_LAMMPS_calculator"
    /\ fn_out.atom_types = NoValue
    /\ fn_out' = [fn_out EXCEPT !.atom_types = Returned(AtomTypes(fn_in.supported_species))]
    /\ UNCHANGED <<fn_in, dispatcherVars>>

NextLammps == ApplyGetParams \/ ApplyAtomTypes

SpecLammps == InitLammps /\ [][NextLammps]_vars

-----------------------------------------------------------------------------
(* C1 *)

ValidatorApplied == fn_in.fn = "_check_conflict_options" /\ fn_out # NoValue

IsConflictError(r) ==
    /\ IsRaised(r)
    /\ r.exc = "KIMCalculatorError"
    /\ r.tag = "does not support argument(s)"

\* C1: _check_conflict_options fails with the configuration-conflict error
\* exactly when the keys of options intersect the not-allowed list; the message
\* then names every key of the intersection; otherwise nothing is raised and
\* options is left as it was.
C1_Validator ==
    ValidatorApplied =>
        LET common == CommonKeys(fn_in.options, fn_in.not_allowed_options)
        IN  /\ IsConflictError(fn_out.res) <=> common # {}
            /\ IsConflictError(fn_out.res) =>
                  \A k \in common :
                      \E i \in 1..Len(fn_out.res.args.keys) : fn_out.res.args.keys[i] = k
            /\ ~IsConflictError(fn_out.res) =>
                  /\ fn_out.res = Returned(NoneObj)
                  /\ fn_out.options = fn_in.options

\* a failing validation with two conflicting keys, both in the message
C1_Witness ==
    /\ ValidatorApplied
    /\ IsConflictError(fn_out.res)
    /\ Cardinality(CommonKeys(fn_in.options, fn_in.not_allowed_options)) = 2
    /\ Len(fn_out.res.args.keys) = 2

-----------------------------------------------------------------------------
(* C5, C6, C7: the ASAP builder for Simulator Models *)

AsapApplied ==
    /\ fn_in.fn = "_asap_calculator"
    /\ fn_in.model_type = "sm"
    /\ fn_out # NoValue

IsKimError(r, tag) == IsRaised(r) /\ r.exc = "KIMCalculatorError" /\ r.tag = tag

IsUnitMismatch(r) == IsKimError(r, "units expected to be ase")

IsMalformedDefn(r) ==
    \/ IsKimError(r, "model-defn is an empty list")
    \/ IsKimError(r, "model-defn should contain only one entry")
    \/ IsKimError(r, "model-defn contains an empty string")

IsUnknownModel(r) == IsKimError(r, "Unknown model for simulator ASAP")

IsCalculator(r) == IsReturned(r) /\ r.value # NoneObj

\* model definitions that are one line naming EMT, alone or with a known
\* parameter set, possibly padded with blanks
PlainEMTLines ==
    { <<"E","M","T">>,
      <<" ","E","M","T"," ">>,
      <<"E","M","T","(","E","M","T","R","a","s","m","u","s","s","e","n","P","a","r","a","m","e","t","e","r","s","(",")",")">>,
      <<"E","M","T","(","E","M","T","M","e","t","a","l","G","l","a","s","s","P","a","r","a","m","e","t","e","r","s","(",")",")">> }

\* C5 as stated: with units "ase" the builder returns a calculator, with any
\* other units it fails with the unit-mismatch error.
C5_Original ==
    AsapApplied /\ fn_in.asap3_installed =>
        IF fn_in.kwargs.supported_units = "ase"
        THEN IsCalculator(fn_out)
        ELSE IsUnitMismatch(fn_out)

\* C5 (amended): with asap3 importable, any units other than "ase" fail with the
\* unit-mismatch error whatever the model definition is; with units "ase" the
\* builder never raises the unit-mismatch error, and it returns a calculator
\* when the definition is a single line naming EMT alone or with a known
\* parameter set.
C5_Units ==
    AsapApplied /\ fn_in.asap3_installed =>
        IF fn_in.kwargs.supported_units = "ase"
        THEN /\ ~IsUnitMismatch(fn_out)
             /\ (Len(fn_in.kwargs.model_defn) = 1
                    /\ fn_in.kwargs.model_defn[1] \in PlainEMTLines)
                  => IsCalculator(fn_out)
        ELSE IsUnitMismatch(fn_out)

\* both halves happen: a unit mismatch on a well-formed definition, and a
\* calculator for units "ase"
C5_WitnessMismatch ==
    /\ AsapApplied
    /\ fn_in.asap3_installed
    /\ fn_in.kwargs.supported_units = "metal"
    /\ fn_in.kwargs.model_defn = << <<"E","M","T">> >>
    /\ IsUnitMismatch(fn_out)

\* C6 as stated: an empty model_defn, one with several entries or one holding
\* an empty string always gets the malformed-model-definition error.
C6_Original ==
    AsapApplied /\ fn_in.asap3_installed =>
        LET model_defn == fn_in.kwargs.model_defn
        IN  (\/ Len(model_defn) = 0
             \/ Len(model_defn) > 1
             \/ \E i \in 1..Len(model_defn) : model_defn[i] = <<>>)
              => IsMalformedDefn(fn_out)

\* C6 (amended): with asap3 importable and units "ase", a model_defn that is
\* empty, has several entries or holds an empty string gets the
\* malformed-model-definition error and no calculator; the definition is parsed
\* (a calculator, an unknown-model error or the failure on asap_calc comes out)
\* only when it is exactly one non-empty entry.
C6_Malformed ==
    AsapApplied /\ fn_in.asap3_installed /\ fn_in.kwargs.supported_units = "ase" =>
        LET model_defn == fn_in.kwargs.model_defn
            bad == \/ Len(model_defn) = 0
                   \/ Len(model_defn) > 1
                   \/ \E i \in 1..Len(model_defn) : model_defn[i] = <<>>
        IN  /\ bad => IsMalformedDefn(fn_out) /\ ~IsCalculator(fn_out)
            /\ ~bad => ~IsMalformedDefn(fn_out)

\* a two-entry definition holding an empty string, rejected under units "ase"
C6_Witness ==
    /\ AsapApplied
    /\ fn_in.asap3_installed
    /\ fn_in.kwargs.supported_units = "ase"
    /\ Len(fn_in.kwargs.model_defn) = 2
    /\ fn_in.kwargs.model_defn[2] = <<>>
    /\ IsMalformedDefn(fn_out)

\* the name a definition line carries in parentheses: the text after the first
\* "(" up to the next parenthesis
ParamSetName(line) ==
    LET opens == {i \in 1..Len(line) : line[i] = "("}
        o == CHOOSE i \in opens : \A j \in opens : i <= j
        stops == {i \in (o + 1)..Len(line) : line[i] \in {"(", ")"}}
        e == IF stops = {} THEN Len(line) + 1
             ELSE CHOOSE i \in stops : \A j \in stops : i <= j
    IN  SubSeq(line, o + 1, e - 1)

HasParamSetName(line) == \E i \in 1..Len(line) : line[i] = "("

KnownParamSets == {EMTRasmussenParameters, EMTMetalGlassParameters}

\* C7: for units "ase" and one non-empty line naming EMT with a (non-empty)
\* parenthesized parameter-set name, a calculator comes out only for a known
\* name; any other name gets the unsupported-model error.
C7_UnknownParamSetFatal ==
    (/\ AsapApplied
     /\ fn_in.asap3_installed
     /\ fn_in.kwargs.supported_units = "ase"
     /\ Len(fn_in.kwargs.model_defn) = 1
     /\ fn_in.kwargs.model_defn[1] # <<>>
     /\ StartsWith(Strip(fn_in.kwargs.model_defn[1]), EMTWord)
     /\ HasParamSetName(fn_in.kwargs.model_defn[1])
     /\ ParamSetName(fn_in.kwargs.model_defn[1]) # <<>>)
    => IF ParamSetName(fn_in.kwargs.model_defn[1]) \in KnownParamSets
       THEN IsCalculator(fn_out)
       ELSE IsUnknownModel(fn_out)

-----------------------------------------------------------------------------
(* C8: species order in the LAMMPS parameters *)

RECURSIVE SplitOn(_, _)
\* s.split(c)
SplitOn(s, c) ==
    LET at == {i \in 1..Len(s) : s[i] = c}
        i0 == CHOOSE i \in at : \A j \in at : i <= j
    IN  IF at = {} THEN <<s>>
        ELSE <<SubSeq(s, 1, i0 - 1)>> \o SplitOn(SubSeq(s, i0 + 1, Len(s)), c)

RECURSIVE ParseInt(_)
\* int(s) for a string of digits
ParseInt(s) ==
    IF Len(s) = 0 THEN 0
    ELSE 10 * ParseInt(SubSeq(s, 1, Len(s) - 1))
         + ((CHOOSE d \in 1..10 : Digits[d] = s[Len(s)]) - 1)

LammpsApplied == fn_in.fn = "_get_params_for_LAMMPS_calculator"

AllKnown(species) == \A i \in 1..Len(species) : species[i] \in DOMAIN atomic_numbers

-----------------------------------------------------------------------------
(* C2, C3, C4, C9, C10: the dispatcher *)

KIMDone == pc = "done" /\ call.entry = "KIM"

\* C2: a call whose options hold a key that the dispatcher itself passes to the
\* backend constructor never reaches that constructor call (the validator has
\* rejected it): at every constructor call written in KIM, the caller's options
\* and the keywords computed by KIM are disjoint.
C2_ComputedKeysDisallowed ==
    KIMDone /\ ctor # NoValue /\ ctor.by = "KIM" =>
        (DOMAIN ctor.internal) \cap (DOMAIN call.options) = {}

\* C3: with the knowledgebase lookups succeeding (and asap3 importable), a call
\* of KIM ends with a calculator returned or with KIMCalculatorError raised.
C3_OnlyDispatchErrors ==
    (/\ KIMDone
     /\ ~(IsRaised(outcome) /\ outcome.exc \in {"KimpyError", "ImportError"}))
    => \/ IsCalculator(outcome)
       \/ IsRaised(outcome) /\ outcome.exc = "KIMCalculatorError"

UnsupportedNativeSimulator ==
    /\ KIMDone
    /\ item_type = "simulatorModel"
    /\ sm_info # NoValue
    /\ sm_info.simulator_name \notin {"ASAP", "LAMMPS"}

\* C4: a Simulator Model whose native simulator is neither ASAP nor LAMMPS makes
\* KIM fail with the unsupported-simulator error, with no backend constructor
\* reached, whatever `simulator` and `options` are.
C4_UnsupportedSimulator ==
    UnsupportedNativeSimulator =>
        /\ IsKimError(outcome, "Unsupported simulator")
        /\ outcome.args = sm_info.simulator_name
        /\ ctor = NoValue

\* the case with a simulator named and an option of its not-allowed list given
C4_Witness ==
    /\ UnsupportedNativeSimulator
    /\ call.simulator = "lammpsrun"
    /\ DOMAIN call.options = {"specorder"}
    /\ IsRaised(outcome)

\* C9: a knowledgebase handle is open only inside the `with` block that
\* acquired it, so at most one is open at a time, and none is open at the next
\* step of the dispatch, nor when the call has returned or failed.
C9_ScopedHandles ==
    /\ Cardinality(handles) <= 1
    /\ pc \in {"classify_body", "classify_exit"} <=> handles = {"ModelCollections"}
    /\ pc \in {"pm_species_body", "pm_species_exit"} <=> handles = {"KIMModelCalculator"}
    /\ pc \in {"sm_info_body", "sm_info_exit"} <=> handles = {"SimulatorModel"}
    /\ pc = "done" => handles = {}

\* a call that failed inside the classifier's `with` block and holds no handle
C9_Witness ==
    /\ pc = "done"
    /\ IsRaised(outcome)
    /\ outcome.exc = "KimpyError"
    /\ item_type = None
    /\ handles = {}

\* C10: when KIM returns a calculator, every key of the caller's options reached
\* the backend constructor with its value.
C10_OptionsMerged ==
    KIMDone /\ IsCalculator(outcome) =>
        \A k \in DOMAIN call.options :
            /\ k \in DOMAIN outcome.value.kwargs
            /\ outcome.value.kwargs[k] = call.options[k]

====
